---- MODULE Spec2Model ----
(***************************************************************************)
(* MasteryForge: the mastery engine (mastery/engine.py), the concept graph *)
(* (mastery/graph.py), the recommendation adapter (ai/provider.py), the    *)
(* learning sessions (mastery/services.py) and the parent's student        *)
(* configuration (dashboard/views.py).                                     *)
(*                                                                         *)
(* Scores are Python floats in [0.0, 1.0]; the model holds them in         *)
(* hundredths (0.15 is 15, 1.0 is 100).  score_percent is held as an       *)
(* integer.  One user is modelled: every query of the code filters on the  *)
(* user, so the rows of other users never take part.                       *)
(***************************************************************************)
EXTENDS Integers, Sequences, FiniteSets, TLC

VARIABLES
    states,   \* MasteryState rows of the user: concept id -> row
    quiz,     \* QuizAttempt rows of the user, in creation order
    clock,    \* timezone.now(), a logical clock
    active,   \* ids of the Concept rows with is_active = True
    last,     \* the request being answered: operation, arguments, result
    tx,       \* open transactions: worker -> position and buffered writes
    steps,    \* graded attempts made in this run
    state_rows,  \* rows of the MasteryState table per concept of the user
    sessions, \* LearningSession rows of the user, in creation order
    tabs      \* the session helper each worker is in, and the row it holds

vars == <<states, quiz, clock, active, last, tx, steps, state_rows, sessions, tabs>>

Min(a, b) == IF a <= b THEN a ELSE b
Max(a, b) == IF a >= b THEN a ELSE b

-----------------------------------------------------------------------------
(* Content rows (content/models.py).  The engine only reads them.          *)

Null == 0          \* Python None as a concept or a course
Raised == -1       \* the call ended in an exception

CourseA == 1
CourseB == 2
Courses == {CourseA, CourseB}

Concepts == 1..5

\* Concept.course
CourseOf == <<CourseA, CourseA, CourseA, CourseA, CourseB>>
\* Concept.order_index; concepts 2 and 3 share an index
OrderIndex == <<0, 1, 1, 2, 0>>
\* Concept.title, as its rank in the collation of the database
Title == <<10, 30, 20, 40, 50>>
\* Concept.prerequisites; concept 5 has its prerequisite in the other course
Prereqs == <<{}, {1}, {}, {2, 3}, {4}>>

\* is_active of the Concept rows, set by the content collaborator
ActiveOptions == {Concepts, {2, 4}}

-----------------------------------------------------------------------------
(* Orderings of querysets and lists.                                       *)

LexLess(a, b) ==
    \E i \in 1..Len(a) :
        /\ a[i] < b[i]
        /\ \A j \in 1..(i - 1) : a[j] = b[j]

LexLeq(a, b) == a = b \/ LexLess(a, b)

\* The members of S as a list in ascending order of Key (keys are distinct).
SortBy(S, Key(_)) ==
    [i \in 1..Cardinality(S) |->
        CHOOSE x \in S :
            Cardinality({y \in S : LexLess(Key(y), Key(x))}) = i - 1]

\* sorted(list, key=Key): stable, equal keys keep their order in the list.
StableSort(list, Key(_)) ==
    LET Before(j, i) ==
            \/ LexLess(Key(list[j]), Key(list[i]))
            \/ (Key(list[j]) = Key(list[i]) /\ j < i)
    IN  [k \in 1..Len(list) |->
            list[CHOOSE i \in 1..Len(list) :
                     Cardinality({j \in 1..Len(list) : Before(j, i)}) = k - 1]]

\* sorted(list, key=Key)[0]: Python's sort is stable, so among equal keys
\* the element that comes first in the list wins.
FirstSorted(list, Key(_)) ==
    LET best == CHOOSE i \in 1..Len(list) :
                    \A j \in 1..Len(list) :
                        \/ LexLess(Key(list[i]), Key(list[j]))
                        \/ (Key(list[i]) = Key(list[j]) /\ i <= j)
    IN  list[best]

SelectSeqIn(list, S) ==
    LET Test(x) == x \in S IN SelectSeq(list, Test)

Range(list) == {list[i] : i \in 1..Len(list)}

\* Meta.ordering of Concept: ['order_index', 'title']
ConceptMetaKey(c) == <<OrderIndex[c], Title[c]>>
\* order_by('order_index', 'id')
ConceptIdKey(c) == <<OrderIndex[c], c>>

-----------------------------------------------------------------------------
(* MasteryEngine.update_mastery_after_quiz                                 *)

\* a clamp of score_percent that forgets the upper bound
ClampPercentNoCeiling(score) == Max(0, score)

\* max(0.0, min(100.0, score_percent))
ClampPercent(score) == Max(0, Min(100, score))

\* a clamp that forgets the upper bound
ClampUnitNoCeiling(x) == Max(0, x)

\* min(1.0, max(0.0, x))
ClampUnit(x) == Min(100, Max(0, x))

\* the bands with the boundaries 80 and 50 given to the lower band
BandDeltaStrict(score) ==
    IF score > 80 THEN [mastery |-> 15, frustration |-> -20, confidence |-> 10]
    ELSE IF score > 50 THEN [mastery |-> 5, frustration |-> 5, confidence |-> 2]
    ELSE [mastery |-> 1, frustration |-> 20, confidence |-> -5]

\* bands in which a score below 50 takes mastery away
BandDeltaPenalty(score) ==
    IF score >= 80 THEN [mastery |-> 15, frustration |-> -20, confidence |-> 10]
    ELSE IF score >= 50 THEN [mastery |-> 5, frustration |-> 5, confidence |-> 2]
    ELSE [mastery |-> -5, frustration |-> 20, confidence |-> -5]

\* the deltas of the graded band
BandDelta(score) ==
    IF score >= 80 THEN [mastery |-> 15, frustration |-> -20, confidence |-> 10]
    ELSE IF score >= 50 THEN [mastery |-> 5, frustration |-> 5, confidence |-> 2]
    ELSE [mastery |-> 1, frustration |-> 20, confidence |-> -5]

\* the defaults of get_or_create; last_seen is auto_now
NewState(now) ==
    [mastery |-> 0, confidence |-> 0, frustration |-> 0, attempts |-> 0,
     last_seen |-> now, ai_recommended |-> FALSE]

\* MasteryEngine._get_mastery_state
GetMasteryState(rows, c, now) ==
    IF c \in DOMAIN rows THEN rows[c] ELSE NewState(now)

\* lines 57-75: the row after one graded attempt
GradedState(st, score, now) ==
    LET d == BandDelta(score)
    IN  [st EXCEPT !.attempts = st.attempts + 1,
                   !.last_seen = now,
                   !.mastery = ClampUnit(st.mastery + d.mastery),
                   !.frustration = ClampUnit(st.frustration + d.frustration),
                   !.confidence = ClampUnit(st.confidence + d.confidence)]

\* save(): the row of concept c becomes st
PutState(rows, c, st) ==
    [d \in (DOMAIN rows) \cup {c} |-> IF d = c THEN st ELSE rows[d]]

\* QuizAttempt.objects.create
NewAttempt(c, score, now) ==
    [concept |-> c, score_percent |-> score, created_at |-> now]

NoAdapter == [kind |-> "none", ids |-> << >>]

Idle == [op |-> "idle", concept |-> Null, course |-> Null, score |-> 0,
         adapter |-> NoAdapter, result |-> Null, via |-> "none"]

Workers == {1, 2}

\* a request that is not inside update_mastery_after_quiz
NoCall == [pc |-> "idle", concept |-> Null, score |-> 0, now |-> 0, at |-> "idle",
           st |-> NewState(0), new_rows |-> << >>, buf_state |-> << >>,
           buf_quiz |-> << >>]

NoTx == [w \in Workers |-> NoCall]

\* a worker that is in no session helper: op is the request, session the
\* LearningSession the local variable refers to and row the copy it holds
NoTab == [pc |-> "idle", op |-> "none", session |-> Null, row |-> << >>,
          concept |-> Null, score |-> 0]

NoTabs == [w \in Workers |-> NoTab]

\* update_mastery_after_quiz on the tables db = [states, quiz, clock]
UpdateDb(db, c, raw) ==
    LET score == ClampPercent(raw)
        now == db.clock + 1
        st == GetMasteryState(db.states, c, now)
    IN  [states |-> PutState(db.states, c, GradedState(st, score, now)),
         quiz |-> Append(db.quiz, NewAttempt(c, score, now)),
         clock |-> now]

EmptyDb == [states |-> << >>, quiz |-> << >>, clock |-> 0]

\* the row counts of a table in which every row is the only one of its concept
RowCounts(rows) == [c \in Concepts |-> IF c \in DOMAIN rows THEN 1 ELSE 0]

\* get_or_create at line 33: an INSERT when the user has no row of concept c
CountCreate(counts, rows, c) ==
    IF c \in DOMAIN rows THEN counts ELSE [counts EXCEPT ![c] = @ + 1]

\* the tables after the graded attempts of calls, a list of <<concept, score>>
RECURSIVE Replay(_)
Replay(calls) ==
    IF calls = << >> THEN EmptyDb
    ELSE LET n == Len(calls)
         IN  UpdateDb(Replay(SubSeq(calls, 1, n - 1)), calls[n][1], calls[n][2])

\* score_percent values a caller passes (any float is accepted)
ScoreInputs == {-10, 49, 50, 79, 80, 150}

MaxUpdates == 2

UpdateMasteryAfterQuiz(c, raw) ==
    /\ last.op = "idle"
    /\ steps < MaxUpdates
    /\ LET db == UpdateDb([states |-> states, quiz |-> quiz, clock |-> clock], c, raw)
       IN  /\ states' = db.states
           /\ quiz' = db.quiz
           /\ clock' = db.clock
    /\ last' = [Idle EXCEPT !.op = "update", !.concept = c, !.score = raw,
                            !.result = c]
    /\ steps' = steps + 1
    /\ state_rows' = CountCreate(state_rows, states, c)
    /\ UNCHANGED <<active, tx, sessions, tabs>>

\* the caller takes the answer; the engine is free for the next request
Respond ==
    /\ last.op # "idle"
    /\ last' = Idle
    /\ UNCHANGED <<states, quiz, clock, active, tx, steps, state_rows, sessions, tabs>>

-----------------------------------------------------------------------------
(* ConceptGraph (mastery/graph.py)                                         *)

MasteryThreshold == 60      \* mastery_threshold, 0.6
FrustrationLimit == 70      \* frustration_score > 0.7
StagnationMastery == 40     \* mastery_score < 0.4
StagnationAttempts == 3     \* attempts > 3

\* ConceptGraph._eligible_queryset
EligibleQueryset(act, course) ==
    {c \in act : course = Null \/ CourseOf[c] = course}

\* prerequisites that count as mastered only above the threshold
PrereqsMasteredStrict(rows, c) ==
    LET prereqs == Prereqs[c]
        mastered == {p \in (DOMAIN rows) \cap prereqs :
                        rows[p].mastery > MasteryThreshold}
    IN  \/ prereqs = {}
        \/ Cardinality(prereqs) = Cardinality(mastered)

\* ConceptGraph._prereqs_mastered
PrereqsMastered(rows, c) ==
    LET prereqs == Prereqs[c]
        mastered == {p \in (DOMAIN rows) \cap prereqs :
                        rows[p].mastery >= MasteryThreshold}
    IN  \/ prereqs = {}
        \/ Cardinality(prereqs) = Cardinality(mastered)

\* ConceptGraph.eligible_concepts, a list in the order of the queryset
EligibleConcepts(rows, act, course) ==
    SortBy({c \in EligibleQueryset(act, course) : PrereqsMastered(rows, c)},
           ConceptMetaKey)

\* order_by('-last_seen').first(): the rows a database may return first
CurrentStates(rows) ==
    {c \in DOMAIN rows : \A d \in DOMAIN rows : rows[d].last_seen <= rows[c].last_seen}

\* filter(concept__in=S).order_by('mastery_score').first(): the order among
\* rows of equal mastery is the database's choice
LowestMasteryStates(rows, S) ==
    {c \in S \cap DOMAIN rows :
        \A d \in S \cap DOMAIN rows : rows[c].mastery <= rows[d].mastery}

\* a sort key that leaves last_seen out
MasteryKeyWithoutTime(rows, c) ==
    IF c \in DOMAIN rows THEN <<rows[c].mastery, 0>> ELSE <<0, 0>>

\* sort_key of _select_lowest_mastery; datetime.min is before every clock value
MasteryKey(rows, c) ==
    IF c \in DOMAIN rows THEN <<rows[c].mastery, rows[c].last_seen>> ELSE <<0, 0>>

\* a choice that ignores the sort key and takes the end of the list
SelectLastListed(rows, list) == list[Len(list)]

\* ConceptGraph._select_lowest_mastery
SelectLowestMastery(rows, list) ==
    LET Key(c) == MasteryKey(rows, c) IN FirstSorted(list, Key)

\* ConceptGraph._fallback_prerequisite
FallbackPrerequisite(rows, act, course) ==
    LET concepts == EligibleQueryset(act, course)
    IN  IF concepts = {} THEN {Null}
        ELSE IF concepts \cap DOMAIN rows # {} THEN LowestMasteryStates(rows, concepts)
        ELSE {c \in concepts : \A d \in concepts : OrderIndex[c] <= OrderIndex[d]}

\* ConceptGraph._pivot_from_frustration
PivotFromFrustration(rows, act, cur, eligible, course) ==
    LET prereqs == Prereqs[cur]
        IsSibling(c) == CourseOf[c] = CourseOf[cur] /\ c # cur
        siblings == SelectSeq(eligible, IsSibling)
    IN  IF prereqs # {} /\ prereqs \cap DOMAIN rows # {}
        THEN LowestMasteryStates(rows, prereqs)
        ELSE IF siblings # << >> THEN {SelectLowestMastery(rows, siblings)}
        ELSE FallbackPrerequisite(rows, act, course)

\* a sideways pivot that may stay on the current concept
PivotSidewaysKeepCurrent(rows, cur, eligible) ==
    IF eligible = << >> THEN {Null} ELSE {SelectLowestMastery(rows, eligible)}

\* ConceptGraph._pivot_sideways
PivotSideways(rows, cur, eligible) ==
    LET Other(c) == c # cur
        alternatives == SelectSeq(eligible, Other)
    IN  IF alternatives = << >> THEN {Null}
        ELSE {SelectLowestMastery(rows, alternatives)}

\* ConceptGraph.select_next_concept with current_state the row of cur
\* (Null: the user has no row); the set of concepts the call can return
GraphSelectFrom(rows, act, course, cur) ==
    LET eligible == EligibleConcepts(rows, act, course)
        frustrated == IF cur # Null /\ rows[cur].frustration > FrustrationLimit
                      THEN PivotFromFrustration(rows, act, cur, eligible, course)
                      ELSE {Null}
        sideways == IF /\ cur # Null
                       /\ rows[cur].mastery < StagnationMastery
                       /\ rows[cur].attempts > StagnationAttempts
                    THEN PivotSideways(rows, cur, eligible)
                    ELSE {Null}
        lowest == IF eligible # << >> THEN {SelectLowestMastery(rows, eligible)}
                  ELSE FallbackPrerequisite(rows, act, course)
    IN  (frustrated \ {Null})
        \cup (IF Null \in frustrated THEN sideways \ {Null} ELSE {})
        \cup (IF Null \in frustrated /\ Null \in sideways THEN lowest ELSE {})

\* ConceptGraph.select_next_concept
GraphSelectNextConcept(rows, act, course) ==
    IF DOMAIN rows = {} THEN GraphSelectFrom(rows, act, course, Null)
    ELSE UNION {GraphSelectFrom(rows, act, course, cur) : cur \in CurrentStates(rows)}

-----------------------------------------------------------------------------
(* The recommendation adapter (ai/provider.py).  A response is             *)
(* [kind, ids]: what the adapter meets when it is asked, and for a JSON    *)
(* array or object the ids it carries.                                     *)

BogusId == 9    \* an id that names no concept

\* AIProvider._azure_chat_completion and _azure_responses: "none" is a
\* return of None, "raise" an exception that is not caught, "content" the
\* text of the reply
ChatCompletion(resp) ==
    CASE resp.kind = "not_configured" -> "none"
      [] resp.kind \in {"transport_error", "timeout"} -> "none"
      [] resp.kind = "http_error" -> "none"
      [] resp.kind = "invalid_json" -> "none"
      [] resp.kind = "bad_shape" -> "raise"
      [] resp.kind = "empty" -> "none"
      [] OTHER -> "content"

\* scored[:3] of recommend_concepts
HeuristicLimit == 3

\* the local ranking of recommend_concepts, lines 425-433
HeuristicConcepts(concepts, rows) ==
    LET Key(c) == IF c \in DOMAIN rows
                  THEN <<rows[c].confidence, rows[c].mastery>>
                  ELSE <<0, 0>>
        scored == StableSort(concepts, Key)
    IN  SubSeq(scored, 1, Min(HeuristicLimit, Len(scored)))

\* AIProvider.recommend_concepts
RecommendConcepts(resp, concepts, rows) ==
    IF resp.kind # "not_configured" /\ ChatCompletion(resp) = "raise"
    THEN [raised |-> TRUE, ids |-> << >>]
    ELSE IF /\ resp.kind # "not_configured"
            /\ ChatCompletion(resp) = "content"
            /\ resp.kind = "list"
    THEN [raised |-> FALSE, ids |-> resp.ids]
    ELSE [raised |-> FALSE, ids |-> HeuristicConcepts(concepts, rows)]

\* AIProvider.recommend_next_lesson: ids is <<next_concept_id>>, or empty
\* for a return of None
RecommendNextLesson(resp) ==
    IF resp.kind = "not_configured" THEN [raised |-> FALSE, ids |-> << >>]
    ELSE IF ChatCompletion(resp) = "raise" THEN [raised |-> TRUE, ids |-> << >>]
    ELSE IF ChatCompletion(resp) = "content" /\ resp.kind = "object"
    THEN [raised |-> FALSE, ids |-> resp.ids]
    ELSE [raised |-> FALSE, ids |-> << >>]

-----------------------------------------------------------------------------
(* MasteryEngine.select_next_concept                                       *)

\* lines 87-90: the concepts offered to the adapter
Candidates(rows, act, course) ==
    LET eligible == EligibleConcepts(rows, act, course)
        concepts == IF eligible # << >> THEN eligible ELSE SortBy(act, ConceptMetaKey)
        InCourse(c) == CourseOf[c] = course
    IN  IF course # Null THEN SelectSeq(concepts, InCourse) ELSE concepts

\* a flag that is stored with update_or_create: a missing row is created
MarkOrCreateAiRecommended(rows, c) ==
    PutState(rows, c, [GetMasteryState(rows, c, 0) EXCEPT !.ai_recommended = TRUE])

\* lines 112-115
MarkAiRecommended(rows, c) ==
    IF c \in DOMAIN rows THEN [rows EXCEPT ![c].ai_recommended = TRUE] ELSE rows

\* the concepts a call of select_next_concept can return on the rows given
\* (Raised: the exception of the adapter leaves the engine)
SelectResults(rows, act, course, resp) ==
    LET concepts == Candidates(rows, act, course)
        sugg == RecommendConcepts(resp, concepts, rows)
        ai_candidates == SelectSeqIn(concepts, Range(sugg.ids))
    IN  IF sugg.raised THEN {Raised}
        ELSE IF ai_candidates # << >> THEN {Head(ai_candidates)}
        ELSE GraphSelectNextConcept(rows, act, course)

SelectNextConcept(course, resp) ==
    /\ last.op = "idle"
    /\ LET concepts == Candidates(states, active, course)
           sugg == RecommendConcepts(resp, concepts, states)
           ai_candidates == SelectSeqIn(concepts, Range(sugg.ids))
           call == [Idle EXCEPT !.op = "select", !.course = course, !.adapter = resp]
       IN  IF sugg.raised
           THEN /\ states' = states
                /\ last' = [call EXCEPT !.result = Raised]
           ELSE IF ai_candidates # << >>
           THEN /\ states' = MarkAiRecommended(states, Head(ai_candidates))
                /\ last' = [call EXCEPT !.result = Head(ai_candidates),
                                        !.via = "adapter"]
           ELSE /\ states' = states
                /\ \E r \in GraphSelectNextConcept(states, active, course) :
                       last' = [call EXCEPT !.result = r, !.via = "graph"]
    /\ UNCHANGED <<quiz, clock, active, tx, steps, state_rows, sessions, tabs>>

-----------------------------------------------------------------------------
(* MasteryEngine.recommend_next_concept_after_quiz                         *)

HighScore == 80     \* score_percent >= 80
LowScore == 50      \* score_percent < 50

\* lines 126-128
CourseConcepts(act, course) ==
    SortBy({c \in act : CourseOf[c] = course}, ConceptIdKey)

\* a fallback whose high-score branch also accepts an equal order_index
FallbackNextOrEqualIndex(rows, c, score, course_concepts) ==
    LET MasteryFor(item) ==
            IF item \in DOMAIN rows /\ CourseOf[item] = CourseOf[c]
            THEN <<rows[item].mastery>> ELSE <<0>>
        AfterOrBeside(item) == OrderIndex[item] >= OrderIndex[c] /\ item # c
        later == SelectSeq(course_concepts, AfterOrBeside)
        prereqs == SortBy(Prereqs[c], ConceptMetaKey)
        Other(item) == item # c
        alternatives == SelectSeq(course_concepts, Other)
    IN  IF score >= HighScore
        THEN (IF later # << >> THEN Head(later) ELSE Null)
        ELSE IF /\ c \in DOMAIN rows
                /\ (rows[c].frustration > FrustrationLimit \/ score < LowScore)
                /\ prereqs # << >>
        THEN FirstSorted(prereqs, MasteryFor)
        ELSE IF alternatives # << >> THEN FirstSorted(alternatives, MasteryFor)
        ELSE Null

\* MasteryEngine._fallback_next_concept_after_quiz
FallbackNextConceptAfterQuiz(rows, c, score, course_concepts) ==
    LET MasteryFor(item) ==
            IF item \in DOMAIN rows /\ CourseOf[item] = CourseOf[c]
            THEN <<rows[item].mastery>> ELSE <<0>>
        After(item) == OrderIndex[item] > OrderIndex[c]
        later == SelectSeq(course_concepts, After)
        prereqs == SortBy(Prereqs[c], ConceptMetaKey)
        Other(item) == item # c
        alternatives == SelectSeq(course_concepts, Other)
    IN  IF score >= HighScore
        THEN (IF later # << >> THEN Head(later) ELSE Null)
        ELSE IF /\ c \in DOMAIN rows
                /\ (rows[c].frustration > FrustrationLimit \/ score < LowScore)
                /\ prereqs # << >>
        THEN FirstSorted(prereqs, MasteryFor)
        ELSE IF alternatives # << >> THEN FirstSorted(alternatives, MasteryFor)
        ELSE Null

\* the answer without the guardrail of line 190
AfterQuizResultUnguarded(rows, c, score, course_concepts, rec) ==
    LET next_id == IF rec.ids = << >> THEN Null ELSE rec.ids[1]
        found == IF next_id # Null /\ next_id \in Range(course_concepts)
                 THEN next_id ELSE Null
    IN  IF found # Null
        THEN [result |-> found, via |-> "adapter"]
        ELSE [result |-> FallbackNextConceptAfterQuiz(rows, c, score, course_concepts),
              via |-> "fallback"]

\* lines 180-201: the answer of the engine to the adapter's reply
AfterQuizResult(rows, c, score, course_concepts, rec) ==
    LET next_id == IF rec.ids = << >> THEN Null ELSE rec.ids[1]
        found == IF next_id # Null /\ next_id \in Range(course_concepts)
                 THEN next_id ELSE Null
        next_concept == IF found = c /\ score >= HighScore THEN Null ELSE found
    IN  IF next_concept # Null
        THEN [result |-> next_concept, via |-> "adapter"]
        ELSE [result |-> FallbackNextConceptAfterQuiz(rows, c, score, course_concepts),
              via |-> "fallback"]

RecommendNextConceptAfterQuiz(c, score, resp) ==
    /\ last.op = "idle"
    /\ LET course_concepts == CourseConcepts(active, CourseOf[c])
           rec == RecommendNextLesson(resp)
           call == [Idle EXCEPT !.op = "recommend", !.concept = c,
                                !.score = score, !.adapter = resp]
           answer == AfterQuizResult(states, c, score, course_concepts, rec)
       IN  IF course_concepts = << >>
           THEN last' = [call EXCEPT !.adapter = NoAdapter]
           ELSE IF rec.raised
           THEN last' = [call EXCEPT !.result = Raised]
           ELSE last' = [call EXCEPT !.result = answer.result, !.via = answer.via]
    /\ UNCHANGED <<states, quiz, clock, active, tx, steps, state_rows, sessions, tabs>>

-----------------------------------------------------------------------------
(* update_mastery_after_quiz statement by statement, for requests served   *)
(* by several workers.  The writes of a transaction are held in the        *)
(* transaction until it commits (READ COMMITTED); a row written by an open *)
(* transaction is locked against the writes of the others.                 *)

\* a table without the unique index and without row locks
LockedByNone(t) == {}

\* the rows a transaction has written and not yet committed
LockedBy(t) ==
    IF t.new_rows # << >> \/ t.buf_state # << >> THEN {t.concept} ELSE {}

LockedByOthers(w) == UNION {LockedBy(tx[v]) : v \in Workers \ {w}}

\* the tables with the writes of transaction t stored
ApplyWrites(rows, qz, t) ==
    LET inserted == IF t.new_rows # << >>
                    THEN PutState(rows, t.concept, t.new_rows[1]) ELSE rows
        saved == IF t.buf_state # << >>
                 THEN PutState(inserted, t.concept, t.buf_state[1]) ELSE inserted
    IN  [states |-> saved, quiz |-> qz \o t.buf_quiz]

\* the row counts after the exit of a transaction: its INSERT is stored
\* when it commits
CountInserts(counts, t, ok) ==
    IF ok /\ t.new_rows # << >> THEN [counts EXCEPT ![t.concept] = @ + 1] ELSE counts

\* the same exit when the block is not atomic: every statement has
\* committed on its own by the time the exception is raised
AutocommitExit(rows, qz, t, ok) == ApplyWrites(rows, qz, t)

\* the exit of `with transaction.atomic()`: commit, or roll back on an exception
AtomicExit(rows, qz, t, ok) ==
    IF ok THEN ApplyWrites(rows, qz, t) ELSE [states |-> rows, quiz |-> qz]

TxConcepts == {1, 2}
TxScores == {30, 90}
MaxCalls == 3

\* line 46 and the entry of the atomic block
Begin(w, c, raw) ==
    /\ tx[w].pc \in {"idle", "failed"}
    /\ steps < MaxCalls
    /\ tx' = [tx EXCEPT ![w] = [NoCall EXCEPT !.pc = "begun", !.concept = c,
                                              !.score = ClampPercent(raw),
                                              !.now = clock + 1]]
    /\ clock' = clock + 1
    /\ steps' = steps + 1
    /\ UNCHANGED <<states, quiz, active, last, state_rows, sessions, tabs>>

\* line 49: get_or_create reads the committed row, or inserts the defaults
GetState(w) ==
    LET t == tx[w] IN
    /\ t.pc = "begun"
    /\ t.concept \in DOMAIN states \/ t.concept \notin LockedByOthers(w)
    /\ tx' = [tx EXCEPT ![w].pc = "got_state",
                        ![w].st = GetMasteryState(states, t.concept, t.now),
                        ![w].new_rows = IF t.concept \in DOMAIN states THEN << >>
                                        ELSE <<NewState(t.now)>>]
    /\ UNCHANGED <<states, quiz, clock, active, last, steps, state_rows, sessions, tabs>>

\* lines 50-55
CreateAttempt(w) ==
    LET t == tx[w] IN
    /\ t.pc = "got_state"
    /\ tx' = [tx EXCEPT ![w].pc = "logged",
                        ![w].buf_quiz = <<NewAttempt(t.concept, t.score, t.now)>>]
    /\ UNCHANGED <<states, quiz, clock, active, last, steps, state_rows, sessions, tabs>>

\* lines 57-82: the row is computed from the copy read at line 49
SaveState(w) ==
    LET t == tx[w] IN
    /\ t.pc = "logged"
    /\ t.concept \notin LockedByOthers(w)
    /\ tx' = [tx EXCEPT ![w].pc = "saved",
                        ![w].st = GradedState(t.st, t.score, t.now),
                        ![w].buf_state = <<GradedState(t.st, t.score, t.now)>>]
    /\ UNCHANGED <<states, quiz, clock, active, last, steps, state_rows, sessions, tabs>>

\* the block ends normally; line 84 returns
Commit(w) ==
    LET t == tx[w]
        db == AtomicExit(states, quiz, t, TRUE)
    IN
    /\ t.pc = "saved"
    /\ states' = db.states
    /\ quiz' = db.quiz
    /\ tx' = [tx EXCEPT ![w] = NoCall]
    /\ state_rows' = CountInserts(state_rows, t, TRUE)
    /\ UNCHANGED <<clock, active, last, steps, sessions, tabs>>

\* an exception (a database error, a lost connection, a killed worker) at
\* any statement of the block
Fail(w) ==
    LET t == tx[w]
        db == AtomicExit(states, quiz, t, FALSE)
    IN
    /\ t.pc \in {"begun", "got_state", "logged", "saved"}
    /\ states' = db.states
    /\ quiz' = db.quiz
    /\ tx' = [tx EXCEPT ![w] = [NoCall EXCEPT !.pc = "failed", !.at = t.pc,
                                              !.concept = t.concept]]
    /\ state_rows' = CountInserts(state_rows, t, FALSE)
    /\ UNCHANGED <<clock, active, last, steps, sessions, tabs>>

TxInit ==
    /\ states = << >>
    /\ quiz = << >>
    /\ clock = 0
    /\ active = Concepts
    /\ last = Idle
    /\ tx = NoTx
    /\ steps = 0
    /\ state_rows = RowCounts(states)
    /\ sessions = << >>
    /\ tabs = NoTabs

TxNext ==
    \/ \E w \in Workers, c \in TxConcepts, raw \in TxScores : Begin(w, c, raw)
    \/ \E w \in Workers : GetState(w)
    \/ \E w \in Workers : CreateAttempt(w)
    \/ \E w \in Workers : SaveState(w)
    \/ \E w \in Workers : Commit(w)
    \/ \E w \in Workers : Fail(w)

TxSpec == TxInit /\ [][TxNext]_vars

-----------------------------------------------------------------------------
(* Stored data the engine can find when it is constructed: the tables left *)
(* by earlier graded attempts.                                             *)

Rep(n, score) == [i \in 1..n |-> score]

\* the graded attempts of one concept, as <<concept, score>> calls
CallsOf(c, scores) == [i \in 1..Len(scores) |-> <<c, scores[i]>>]

\* the attempts of all concepts, concept by concept in the order given
RECURSIVE CallsInOrder(_, _)
CallsInOrder(order, h) ==
    IF order = << >> THEN << >>
    ELSE CallsOf(Head(order), h[Head(order)]) \o CallsInOrder(Tail(order), h)

\* the order in which the concepts were last attempted
TouchOrders == {<<1, 3, 2, 4, 5>>}

UpdateHistories ==
    <<{<< >>, Rep(6, 90), Rep(4, 30)}, {<< >>, Rep(9, 90)}, {<< >>}, {<< >>}, {<< >>}>>

Snapshots(options, orders) ==
    {Replay(CallsInOrder(o, <<h1, h2, h3, h4, h5>>)) :
        o \in orders, h1 \in options[1], h2 \in options[2], h3 \in options[3],
        h4 \in options[4], h5 \in options[5]}

\* the graded attempts behind the rows the selection is tried on
SelectHistories ==
    <<{<< >>, Rep(4, 60), Rep(4, 90)},
      {<< >>, Rep(3, 30) \o Rep(3, 60), Rep(4, 90)},
      {<< >>, Rep(3, 90) \o Rep(1, 60), Rep(4, 90)},
      {<< >>, Rep(4, 30)},
      {<< >>, Rep(4, 30)}>>

UpdateInit ==
    /\ \E db \in Snapshots(UpdateHistories, {<<1, 2, 3, 4, 5>>}) :
        /\ states = db.states
        /\ quiz = db.quiz
        /\ clock = db.clock
    /\ active = Concepts
    /\ last = Idle
    /\ tx = NoTx
    /\ steps = 0
    /\ state_rows = RowCounts(states)
    /\ sessions = << >>
    /\ tabs = NoTabs

UpdateNext ==
    \/ \E c \in Concepts, raw \in ScoreInputs : UpdateMasteryAfterQuiz(c, raw)
    \/ Respond

UpdateSpec == UpdateInit /\ [][UpdateNext]_vars

\* what the adapter can answer to recommend_concepts
MaxSuggest == 2
SuggestIds == {1, 2, 4, BogusId}
FailureKinds ==
    {"not_configured", "transport_error", "timeout", "http_error",
     "invalid_json", "bad_shape", "empty", "text", "scalar"}
Failures == {[kind |-> k, ids |-> << >>] : k \in FailureKinds}
SuggestLists ==
    UNION {[1..n -> SuggestIds] : n \in 0..MaxSuggest}
ConceptsResponses ==
    Failures \cup {[kind |-> "list", ids |-> l] : l \in SuggestLists}
        \cup {[kind |-> "object", ids |-> << >>]}

\* what the adapter can answer to recommend_next_lesson; an id of Null is a
\* blank next_concept_id
LessonResponses ==
    Failures \cup {[kind |-> "object", ids |-> << >>]}
        \cup {[kind |-> "object", ids |-> <<v>>] : v \in Concepts \cup {Null, BogusId}}

QuizScores == {49, 50, 80}

SelectInit ==
    /\ \E db \in Snapshots(SelectHistories, TouchOrders) :
        /\ states = db.states
        /\ quiz = db.quiz
        /\ clock = db.clock
    /\ active \in ActiveOptions
    /\ last = Idle
    /\ tx = NoTx
    /\ steps = 0
    /\ state_rows = RowCounts(states)
    /\ sessions = << >>
    /\ tabs = NoTabs

SelectNext ==
    \/ \E course \in Courses \cup {Null}, resp \in ConceptsResponses :
           SelectNextConcept(course, resp)
    \/ \E c \in Concepts, score \in QuizScores, resp \in LessonResponses :
           RecommendNextConceptAfterQuiz(c, score, resp)
    \/ Respond

SelectSpec == SelectInit /\ [][SelectNext]_vars

\* the deterministic selector on its own: the adapter names no candidate, so
\* that select_next_concept goes on to ConceptGraph.select_next_concept
GraphHistories ==
    <<{<< >>, Rep(3, 60), Rep(4, 60), <<60, 60, 90, 90>>, Rep(4, 90)},
      {<< >>, Rep(3, 30) \o Rep(3, 60), Rep(4, 90)},
      {<< >>, Rep(4, 60), Rep(3, 90) \o Rep(1, 60), Rep(4, 90)},
      {<< >>, Rep(4, 30)},
      {<< >>, Rep(4, 30)}>>

GraphOrders == {<<1, 3, 2, 4, 5>>, <<3, 1, 2, 4, 5>>, <<5, 4, 2, 3, 1>>, <<4, 1, 2, 5, 3>>}

GraphResponses == {[kind |-> "list", ids |-> << >>], [kind |-> "list", ids |-> <<BogusId>>]}

GraphInit ==
    /\ \E db \in Snapshots(GraphHistories, GraphOrders) :
        /\ states = db.states
        /\ quiz = db.quiz
        /\ clock = db.clock
    /\ active \in ActiveOptions
    /\ last = Idle
    /\ tx = NoTx
    /\ steps = 0
    /\ state_rows = RowCounts(states)
    /\ sessions = << >>
    /\ tabs = NoTabs

GraphNext ==
    \/ \E course \in Courses \cup {Null}, resp \in GraphResponses :
           SelectNextConcept(course, resp)
    \/ Respond

GraphSpec == GraphInit /\ [][GraphNext]_vars

\* A learner who follows the deterministic selector: every request asks
\* select_next_concept for the next concept of any course, the adapter
\* naming none, and the learner submits a quiz of the concept returned with
\* a score of 80 or more.
LearnerHistories ==
    <<{<< >>, Rep(4, 60), Rep(4, 30)}, {<< >>}, {<< >>, Rep(2, 90), Rep(4, 30)},
      {<< >>}, {<< >>}>>

LearnerOrders == {<<1, 3, 2, 4, 5>>, <<3, 1, 2, 4, 5>>}
LearnerScores == {80}
MaxAttempts == 30

\* views.py:286 for the concept of the page select_next_concept chose
AttemptReturned(raw) ==
    /\ last.op = "select"
    /\ last.result \in Concepts
    /\ steps < MaxAttempts
    /\ LET db == UpdateDb([states |-> states, quiz |-> quiz, clock |-> clock],
                          last.result, raw)
       IN  /\ states' = db.states
           /\ quiz' = db.quiz
           /\ clock' = db.clock
    /\ last' = [Idle EXCEPT !.op = "update", !.concept = last.result, !.score = raw,
                            !.result = last.result]
    /\ steps' = steps + 1
    /\ state_rows' = CountCreate(state_rows, states, last.result)
    /\ UNCHANGED <<active, tx, sessions, tabs>>

LearnerInit ==
    /\ \E db \in Snapshots(LearnerHistories, LearnerOrders) :
        /\ states = db.states
        /\ quiz = db.quiz
        /\ clock = db.clock
    /\ active = Concepts
    /\ last = Idle
    /\ tx = NoTx
    /\ steps = 0
    /\ state_rows = RowCounts(states)
    /\ sessions = << >>
    /\ tabs = NoTabs

LearnerNext ==
    \/ SelectNextConcept(Null, [kind |-> "list", ids |-> << >>])
    \/ \E raw \in LearnerScores : AttemptReturned(raw)
    \/ last.op = "update" /\ Respond

\* the learner goes on: a request that can be made is made
LearnerSpec == LearnerInit /\ [][LearnerNext]_vars /\ WF_vars(LearnerNext)

\* recommend_next_concept_after_quiz on its own, with courses in which the
\* concepts of one order_index are the last active ones
QuizActive == ActiveOptions \cup {{1, 2, 3}}

QuizHistories ==
    <<{<< >>, Rep(4, 90)},
      {<< >>, Rep(3, 30) \o Rep(3, 60), Rep(4, 90)},
      {<< >>, Rep(4, 60), Rep(4, 90)},
      {<< >>, Rep(4, 30)},
      {<< >>, Rep(4, 30)}>>

FallbackScores == {49, 50, 79, 80}

QuizResponses ==
    {[kind |-> k, ids |-> << >>] : k \in {"not_configured", "invalid_json", "bad_shape"}}
        \cup {[kind |-> "object", ids |-> l] : l \in {<< >>, <<BogusId>>, <<2>>}}

QuizInit ==
    /\ \E db \in Snapshots(QuizHistories, TouchOrders) :
        /\ states = db.states
        /\ quiz = db.quiz
        /\ clock = db.clock
    /\ active \in QuizActive
    /\ last = Idle
    /\ tx = NoTx
    /\ steps = 0
    /\ state_rows = RowCounts(states)
    /\ sessions = << >>
    /\ tabs = NoTabs

QuizNext ==
    \/ \E c \in Concepts, score \in FallbackScores, resp \in QuizResponses :
           RecommendNextConceptAfterQuiz(c, score, resp)
    \/ Respond

QuizSpec == QuizInit /\ [][QuizNext]_vars

\* the three operations of the engine for one user whose requests are served
\* by several workers, from a row one attempt short of the mastery threshold
RaceHistories == <<{Rep(3, 90)}, {<< >>}, {<< >>}, {<< >>}, {<< >>}>>

RaceConcepts == {1}
RaceConceptsResponses == {[kind |-> "list", ids |-> << >>]}
RaceLessonResponses == {[kind |-> "not_configured", ids |-> << >>]}

RaceInit ==
    /\ \E db \in Snapshots(RaceHistories, TouchOrders) :
        /\ states = db.states
        /\ quiz = db.quiz
        /\ clock = db.clock
    /\ active = Concepts
    /\ last = Idle
    /\ tx = NoTx
    /\ steps = 0
    /\ state_rows = RowCounts(states)
    /\ sessions = << >>
    /\ tabs = NoTabs

RaceNext ==
    \/ \E w \in Workers, c \in RaceConcepts, raw \in TxScores : Begin(w, c, raw)
    \/ \E w \in Workers : GetState(w)
    \/ \E w \in Workers : CreateAttempt(w)
    \/ \E w \in Workers : SaveState(w)
    \/ \E w \in Workers : Commit(w)
    \/ \E w \in Workers : Fail(w)
    \/ \E resp \in RaceConceptsResponses : SelectNextConcept(Null, resp)
    \/ \E c \in RaceConcepts, resp \in RaceLessonResponses :
           RecommendNextConceptAfterQuiz(c, 80, resp)
    \/ Respond

RaceSpec == RaceInit /\ [][RaceNext]_vars

-----------------------------------------------------------------------------
(* The parent's student configuration (dashboard/views.py,                 *)
(* parent_student_config) with an overridden starting point, and the       *)
(* operations of the program one after the other.                          *)

\* MasteryState.objects.update_or_create at lines 445-454 on the tables
\* db = [states, counts, clock]
UpdateOrCreate(db, c) ==
    LET now == db.clock + 1
        row == IF c \in DOMAIN db.states
               THEN [db.states[c] EXCEPT !.mastery = 0, !.confidence = 0,
                                         !.frustration = 0, !.attempts = 0,
                                         !.last_seen = now]
               ELSE NewState(now)
    IN  [states |-> PutState(db.states, c, row),
         counts |-> CountCreate(db.counts, db.states, c),
         clock |-> now]

\* the loop of lines 444-454 over starting_targets
RECURSIVE ResetTargets(_, _)
ResetTargets(db, targets) ==
    IF targets = << >> THEN db
    ELSE ResetTargets(UpdateOrCreate(db, Head(targets)), Tail(targets))

\* the POST of parent_student_config; targets is starting_targets, empty
\* when override_starting_point is off
ParentStudentConfig(targets) ==
    /\ last.op = "idle"
    /\ steps < MaxUpdates
    /\ LET db == ResetTargets([states |-> states, counts |-> state_rows,
                               clock |-> clock], targets)
       IN  /\ states' = db.states
           /\ state_rows' = db.counts
           /\ clock' = db.clock
    /\ last' = [Idle EXCEPT !.op = "config"]
    /\ steps' = steps + 1
    /\ UNCHANGED <<quiz, active, tx, sessions, tabs>>

ProgramConcepts == {1, 2}
ProgramScores == {-10, 60, 150}
\* starting_concept and the values of starting_concepts_by_course
ProgramTargets == {<< >>, <<1>>, <<2, 1>>}
ProgramConceptsResponses ==
    {[kind |-> "not_configured", ids |-> << >>],
     [kind |-> "list", ids |-> << >>],
     [kind |-> "list", ids |-> <<2>>]}
ProgramLessonResponses ==
    {[kind |-> "not_configured", ids |-> << >>],
     [kind |-> "object", ids |-> <<1>>]}

ProgramInit ==
    /\ states = << >>
    /\ quiz = << >>
    /\ clock = 0
    /\ active = Concepts
    /\ last = Idle
    /\ tx = NoTx
    /\ steps = 0
    /\ state_rows = RowCounts(states)
    /\ sessions = << >>
    /\ tabs = NoTabs

ProgramNext ==
    \/ \E c \in ProgramConcepts, raw \in ProgramScores : UpdateMasteryAfterQuiz(c, raw)
    \/ \E resp \in ProgramConceptsResponses : SelectNextConcept(Null, resp)
    \/ \E c \in ProgramConcepts, resp \in ProgramLessonResponses :
           RecommendNextConceptAfterQuiz(c, 60, resp)
    \/ \E targets \in ProgramTargets : ParentStudentConfig(targets)
    \/ Respond

ProgramSpec == ProgramInit /\ [][ProgramNext]_vars

-----------------------------------------------------------------------------
(* Learning sessions (mastery/services.py, mastery/signals.py).  The clock *)
(* counts minutes; the user is a student, the only user type for which the *)
(* login and logout signals and the views call the session helpers.        *)

SessionTimeoutMinutes == 90     \* SESSION_TIMEOUT_MINUTES

Open == -1      \* end_time IS NULL

\* the window of the session that started at start is also over at its end
ExpiredAtTimeout(now, start) == now - start >= SessionTimeoutMinutes

\* line 19: timezone.now() - session.start_time > timedelta(minutes=90)
Expired(now, start) == now - start > SessionTimeoutMinutes

\* filter(end_time__isnull=True)
OpenSessions(sess) == {i \in 1..Len(sess) : sess[i].end_time = Open}

\* order_by('-start_time').first() over the open sessions: the sessions a
\* database may return first, none when the set is empty
LatestOpen(sess) ==
    {i \in OpenSessions(sess) :
        \A j \in OpenSessions(sess) : sess[j].start_time <= sess[i].start_time}

\* filter(end_time__isnull=True).update(end_time=now)
CloseAll(sess, now) ==
    [i \in 1..Len(sess) |->
        IF sess[i].end_time = Open THEN [sess[i] EXCEPT !.end_time = now] ELSE sess[i]]

\* LearningSession.objects.create(user=user): start_time is auto_now_add;
\* score_sum stands for average_score, which is score_sum / total_questions
NewSession(now) ==
    [start_time |-> now, end_time |-> Open, total_questions |-> 0,
     score_sum |-> 0, concepts_covered |-> {}]

\* lines 24-26: close what is open, create a session
StartSession(sess, now) == Append(CloseAll(sess, now), NewSession(now))

\* get_or_start_session with session the row found at lines 13-17 (Null:
\* none): the table afterwards and the index of the session returned
GetOrStartSession(sess, session, now) ==
    IF session # Null /\ ~Expired(now, sess[session].start_time)
    THEN [sessions |-> sess, result |-> session]
    ELSE LET closed == IF session # Null
                       THEN [sess EXCEPT ![session].end_time = now] ELSE sess
         IN  [sessions |-> StartSession(closed, now), result |-> Len(sess) + 1]

\* close_session with session the row found at lines 32-36
CloseSession(sess, session, now) ==
    IF session # Null THEN [sess EXCEPT ![session].end_time = now] ELSE sess

MaxSessions == 3
MaxClock == 240
TickMinutes == {30, 91}

\* the row a query for the latest open session can return
FoundSessions(sess) == IF LatestOpen(sess) = {} THEN {Null} ELSE LatestOpen(sess)

\* a page load of learning_session or a quiz submission (views.py:214,
\* 288), or the login of the student (signals.py:7-10)
OpenLearningSession(op) ==
    /\ last.op = "idle"
    /\ \E session \in FoundSessions(sessions) :
        LET out == GetOrStartSession(sessions, session, clock)
        IN  /\ Len(out.sessions) <= MaxSessions
            /\ sessions' = out.sessions
            /\ last' = [Idle EXCEPT !.op = op, !.result = out.result]
    /\ UNCHANGED <<states, quiz, clock, active, tx, steps, state_rows, tabs>>

\* the logout of the student (signals.py:13-16)
Logout ==
    /\ last.op = "idle"
    /\ \E session \in FoundSessions(sessions) :
        /\ sessions' = CloseSession(sessions, session, clock)
        /\ last' = [Idle EXCEPT !.op = "logout", !.result = session]
    /\ UNCHANGED <<states, quiz, clock, active, tx, steps, state_rows, tabs>>

\* time passes between two requests
Tick(minutes) ==
    /\ last.op = "idle"
    /\ clock + minutes <= MaxClock
    /\ clock' = clock + minutes
    /\ UNCHANGED <<states, quiz, active, last, tx, steps, state_rows, sessions, tabs>>

SessionInit ==
    /\ states = << >>
    /\ quiz = << >>
    /\ clock = 0
    /\ active = Concepts
    /\ last = Idle
    /\ tx = NoTx
    /\ steps = 0
    /\ state_rows = RowCounts(states)
    /\ sessions = << >>
    /\ tabs = NoTabs

SessionNext ==
    \/ \E op \in {"login", "session"} : OpenLearningSession(op)
    \/ Logout
    \/ \E minutes \in TickMinutes : Tick(minutes)
    \/ Respond

SessionSpec == SessionInit /\ [][SessionNext]_vars

\* The same helpers statement by statement, for requests of one student
\* that several workers serve at the same time (several browser tabs).
\* Every statement is a transaction of its own.

MaxQuizzes == 2
TabConcepts == {1}
TabScores == {60}
TabMinutes == {91}

\* services.py:13-17 and 32-36: the query for the latest open session; op is
\* "login" (signals.py:10), "session" (views.py:214), "quiz" (views.py:288)
\* or "logout" (signals.py:16)
FindSession(w, op, c, score) ==
    /\ tabs[w].pc = "idle"
    /\ op = "quiz" => steps < MaxQuizzes
    /\ \E session \in FoundSessions(sessions) :
        tabs' = [tabs EXCEPT ![w] =
                    [pc |-> "found", op |-> op, session |-> session,
                     row |-> IF session = Null THEN << >> ELSE <<sessions[session]>>,
                     concept |-> c, score |-> score]]
    /\ steps' = IF op = "quiz" THEN steps + 1 ELSE steps
    /\ UNCHANGED <<states, quiz, clock, active, last, tx, state_rows, sessions>>

\* services.py:18-22: the session found is over after 90 minutes
CheckTimeout(w) ==
    LET t == tabs[w] IN
    /\ t.pc = "found"
    /\ t.op # "logout"
    /\ IF t.session # Null /\ Expired(clock, t.row[1].start_time)
       THEN /\ sessions' = [sessions EXCEPT ![t.session].end_time = clock]
            /\ tabs' = [tabs EXCEPT ![w].pc = "none", ![w].session = Null,
                                    ![w].row = << >>]
       ELSE /\ sessions' = sessions
            /\ tabs' = [tabs EXCEPT ![w].pc = IF t.session # Null THEN "has" ELSE "none"]
    /\ UNCHANGED <<states, quiz, clock, active, last, tx, steps, state_rows>>

\* services.py:25: filter(end_time__isnull=True).update(end_time=now)
CloseOpenSessions(w) ==
    /\ tabs[w].pc = "none"
    /\ sessions' = CloseAll(sessions, clock)
    /\ tabs' = [tabs EXCEPT ![w].pc = "closed"]
    /\ UNCHANGED <<states, quiz, clock, active, last, tx, steps, state_rows>>

\* services.py:26: LearningSession.objects.create(user=user)
CreateSession(w) ==
    /\ tabs[w].pc = "closed"
    /\ Len(sessions) < MaxSessions
    /\ sessions' = Append(sessions, NewSession(clock))
    /\ tabs' = [tabs EXCEPT ![w].pc = "has", ![w].session = Len(sessions) + 1,
                            ![w].row = <<NewSession(clock)>>]
    /\ UNCHANGED <<states, quiz, clock, active, last, tx, steps, state_rows>>

\* services.py:28: the login and the page load are done with the session
ReturnSession(w) ==
    /\ tabs[w].pc = "has"
    /\ tabs[w].op \in {"login", "session"}
    /\ tabs' = [tabs EXCEPT ![w] = NoTab]
    /\ UNCHANGED <<states, quiz, clock, active, last, tx, steps, state_rows, sessions>>

\* services.py:43: record_quiz, session.concepts_covered.add(concept)
AddConceptCovered(w) ==
    LET t == tabs[w] IN
    /\ t.pc = "has"
    /\ t.op = "quiz"
    /\ sessions' = [sessions EXCEPT ![t.session].concepts_covered = @ \cup {t.concept}]
    /\ tabs' = [tabs EXCEPT ![w].pc = "added"]
    /\ UNCHANGED <<states, quiz, clock, active, last, tx, steps, state_rows>>

\* services.py:44-51: the counters of the copy, raised, are written with
\* save(update_fields=['total_questions', 'average_score'])
SaveQuizCounters(stored, row, score) ==
    [stored EXCEPT !.total_questions = row.total_questions + 1,
                   !.score_sum = row.score_sum + score]

RecordQuiz(w) ==
    LET t == tabs[w] IN
    /\ t.pc = "added"
    /\ sessions' = [sessions EXCEPT
                        ![t.session] = SaveQuizCounters(@, t.row[1], t.score)]
    /\ tabs' = [tabs EXCEPT ![w] = NoTab]
    /\ UNCHANGED <<states, quiz, clock, active, last, tx, steps, state_rows>>

\* services.py:37-39: close_session ends the session it found
CloseFoundSession(w) ==
    LET t == tabs[w] IN
    /\ t.pc = "found"
    /\ t.op = "logout"
    /\ sessions' = CloseSession(sessions, t.session, clock)
    /\ tabs' = [tabs EXCEPT ![w] = NoTab]
    /\ UNCHANGED <<states, quiz, clock, active, last, tx, steps, state_rows>>

TabsNext ==
    \/ \E w \in Workers, op \in {"login", "session", "logout"} :
           FindSession(w, op, Null, 0)
    \/ \E w \in Workers, c \in TabConcepts, score \in TabScores :
           FindSession(w, "quiz", c, score)
    \/ \E w \in Workers : CheckTimeout(w)
    \/ \E w \in Workers : CloseOpenSessions(w)
    \/ \E w \in Workers : CreateSession(w)
    \/ \E w \in Workers : ReturnSession(w)
    \/ \E w \in Workers : AddConceptCovered(w)
    \/ \E w \in Workers : RecordQuiz(w)
    \/ \E w \in Workers : CloseFoundSession(w)
    \/ \E minutes \in TabMinutes : Tick(minutes)

TabsSpec == SessionInit /\ [][TabsNext]_vars

-----------------------------------------------------------------------------
(* Properties                                                              *)

Attempts(rows, c) == IF c \in DOMAIN rows THEN rows[c].attempts ELSE 0

ScoreOf(rows, c, field) == IF c \in DOMAIN rows THEN rows[c][field] ELSE 0

IsUpdate(c) == last.op = "idle" /\ last'.op = "update" /\ last'.concept = c

\* C1: after any sequence of update_mastery_after_quiz calls, with any
\* score_percent, the three scores of every MasteryState lie in [0, 1], and
\* each call raises the attempts of the concept it grades by exactly 1.
C1_ScoresBoundedAttemptsCounted ==
    /\ [](\A c \in DOMAIN states :
            /\ states[c].mastery \in 0..100
            /\ states[c].confidence \in 0..100
            /\ states[c].frustration \in 0..100)
    /\ [][\A c \in Concepts :
            IsUpdate(c) =>
                /\ c \in DOMAIN states'
                /\ states'[c].attempts = Attempts(states, c) + 1
                /\ \A d \in Concepts \ {c} : Attempts(states', d) = Attempts(states, d)]_vars

\* a score_percent above 100 was graded and the mastery sits at its bound
C1_Witness ==
    /\ last.op = "update"
    /\ last.score > 100
    /\ states[last.concept].mastery = 100
    /\ states[last.concept].attempts >= 7

\* C2: update_mastery_after_quiz clamps score_percent into [0, 100], applies
\* the deltas of exactly one band (80 and 50 belong to the upper band) and
\* clamps each score to [0, 1]; a score of 80 or more lowers the frustration
\* and raises mastery and confidence, unless the score is already at its bound.
C2_BandDeltasApplied ==
    [][\A c \in Concepts :
        IsUpdate(c) =>
            LET raw == last'.score
                s == IF raw < 0 THEN 0 ELSE IF raw > 100 THEN 100 ELSE raw
                dm == IF s >= 80 THEN 15 ELSE IF s >= 50 THEN 5 ELSE 1
                df == IF s >= 80 THEN -20 ELSE IF s >= 50 THEN 5 ELSE 20
                dc == IF s >= 80 THEN 10 ELSE IF s >= 50 THEN 2 ELSE -5
                Unit(x) == IF x < 0 THEN 0 ELSE IF x > 100 THEN 100 ELSE x
                m == ScoreOf(states, c, "mastery")
                f == ScoreOf(states, c, "frustration")
                k == ScoreOf(states, c, "confidence")
                post == states'[c]
            IN  /\ quiz'[Len(quiz')].score_percent = s
                /\ post.mastery = Unit(m + dm)
                /\ post.frustration = Unit(f + df)
                /\ post.confidence = Unit(k + dc)
                /\ s >= 80 =>
                    /\ post.frustration < f \/ f = 0
                    /\ post.mastery > m \/ m = 100
                    /\ post.confidence > k \/ k = 100]_vars

\* a first attempt graded exactly 80: the upper band, frustration stays at 0
C2_Witness ==
    /\ last.op = "update"
    /\ last.score = 80
    /\ states[last.concept].attempts = 1
    /\ states[last.concept].mastery = 15
    /\ states[last.concept].frustration = 0

\* the rows without the informational flag
Graded(rows) == [c \in DOMAIN rows |-> [rows[c] EXCEPT !.ai_recommended = FALSE]]

\* C3: update_mastery_after_quiz is atomic: whatever statement of the
\* operation fails, the QuizAttempt row of a graded attempt and the change
\* of the MasteryState are stored together or not at all.
C3_AttemptAndStateStoredTogether ==
    /\ [](\A c \in DOMAIN states :
            /\ states[c].attempts >= 1
            /\ \E i \in 1..Len(quiz) : quiz[i].concept = c)
    /\ [](\A i \in 1..Len(quiz) : quiz[i].concept \in DOMAIN states)
    /\ [][(quiz' # quiz) <=> (Graded(states') # Graded(states))]_vars

\* a call failed after its last write and left the tables as they were
C3_Witness ==
    \E w \in Workers :
        /\ tx[w].pc = "failed"
        /\ tx[w].at = "saved"
        /\ quiz = << >>
        /\ DOMAIN states = {}

\* C4: whatever the adapter meets (not configured, transport error,
\* timeout, HTTP error, invalid JSON, JSON of an unexpected shape, no
\* next_concept_id, an id that is no candidate), select_next_concept and
\* recommend_next_concept_after_quiz end with a concept or null, never with
\* an exception.
C4_AdapterFailureNeverRaises ==
    last.op \in {"select", "recommend"} => last.result # Raised

\* the adapter replies that carry no suggestion for the candidates
NoSuggestion(resp, candidates) ==
    \/ resp.kind \in {"not_configured", "transport_error", "timeout", "http_error",
                      "invalid_json", "empty", "text", "scalar", "object"}
    \/ resp.kind = "list" /\ Range(resp.ids) \cap Range(candidates) = {}

\* C5: when the adapter is not configured, fails or returns no usable
\* suggestion, select_next_concept returns what the deterministic selector
\* returns for the same concepts and rows.
C5_NoSuggestionUsesDeterministicSelector ==
    (/\ last.op = "select"
     /\ NoSuggestion(last.adapter, Candidates(states, active, last.course)))
        => last.result \in GraphSelectNextConcept(states, active, last.course)

\* C6: when a course is given, select_next_concept never returns a concept
\* of another course.
C6_ResultInRequestedCourse ==
    (/\ last.op = "select"
     /\ last.course # Null
     /\ last.result \in Concepts)
        => CourseOf[last.result] = last.course

\* C7: select_next_concept returns a concept whenever an active concept
\* exists in scope, for every adapter response; when no concept is eligible
\* the candidates are all active concepts in scope.
C7_SomeConceptWheneverActiveInScope ==
    LET scope == {c \in active : last.course = Null \/ CourseOf[c] = last.course}
    IN  last.op = "select" =>
            /\ scope # {} => last.result \in Concepts
            /\ EligibleConcepts(states, active, last.course) = << >>
                => Range(Candidates(states, active, last.course)) = scope

\* C8: eligible_concepts returns exactly the active concepts (of the course,
\* when one is given) whose every prerequisite has a MasteryState with
\* mastery_score >= 0.6; a prerequisite without a state is not mastered and
\* a concept without prerequisites is always returned.
C8_EligibleExactly ==
    \A course \in Courses \cup {Null} :
        Range(EligibleConcepts(states, active, course)) =
            {c \in active :
                /\ course = Null \/ CourseOf[c] = course
                /\ \A p \in Prereqs[c] : p \in DOMAIN states /\ states[p].mastery >= 60}

\* concept 1 sits exactly on the threshold, so concept 2 is eligible, while
\* concept 4 is held back by a prerequisite that was never attempted
C8_Witness ==
    /\ last.op = "select"
    /\ active = Concepts
    /\ 1 \in DOMAIN states /\ states[1].mastery = 60
    /\ 3 \notin DOMAIN states
    /\ 2 \in Range(EligibleConcepts(states, active, Null))
    /\ 4 \notin Range(EligibleConcepts(states, active, Null))

\* the mastery of a concept, 0.0 when it was never attempted
MasteryOf(rows, c) == IF c \in DOMAIN rows THEN rows[c].mastery ELSE 0

\* C9: in the deterministic selector, when the most recently touched state
\* has frustration_score > 0.7 and its concept has an unmastered
\* prerequisite, the selector returns the unmastered prerequisite of lowest
\* mastery, a never-attempted prerequisite counting as 0.0.
C9_FrustrationPivotsToWeakestPrerequisite ==
    \A cur \in CurrentStates(states) :
        LET unmastered == {p \in Prereqs[cur] : MasteryOf(states, p) < 60}
        IN  (/\ last.op = "select"
             /\ last.via = "graph"
             /\ states[cur].frustration > 70
             /\ unmastered # {})
                => /\ last.result \in unmastered
                   /\ \A p \in unmastered :
                        MasteryOf(states, last.result) <= MasteryOf(states, p)

\* the first active concept of the course after concept c in index order
NextByIndex(c) ==
    LET later == {d \in active : CourseOf[d] = CourseOf[c] /\ OrderIndex[d] > OrderIndex[c]}
    IN  IF later = {} THEN Null
        ELSE CHOOSE d \in later :
                \A e \in later : OrderIndex[d] < OrderIndex[e]
                                    \/ (OrderIndex[d] = OrderIndex[e] /\ d <= e)

SuggestsGraded == last.adapter = [kind |-> "object", ids |-> <<last.concept>>]

\* C10 as stated: with score_percent >= 80 the just-graded concept is never
\* returned and a suggestion naming it gives way to the index-order
\* fallback; with score_percent < 80 the same suggestion is returned.
C10_GuardrailAsStated ==
    last.op = "recommend" =>
        /\ last.score >= 80 => last.result # last.concept
        /\ (SuggestsGraded /\ last.score >= 80) => last.result = NextByIndex(last.concept)
        /\ (SuggestsGraded /\ last.score < 80) => last.result = last.concept

\* C10, amended: with score_percent < 80 the suggestion is returned when the
\* just-graded concept is an active concept.
C10_Guardrail ==
    last.op = "recommend" =>
        /\ last.score >= 80 => last.result # last.concept
        /\ (SuggestsGraded /\ last.score >= 80) => last.result = NextByIndex(last.concept)
        /\ (SuggestsGraded /\ last.score < 80 /\ last.concept \in active)
                => last.result = last.concept

\* the adapter named the concept just graded with 80: the later concept of
\* the course is returned
C10_Witness ==
    /\ last.op = "recommend"
    /\ last.score = 80
    /\ SuggestsGraded
    /\ last.concept = 2
    /\ last.result = 4

\* the candidates the adapter's list names, in the order of the list
ListedCandidates ==
    SelectSeqIn(last.adapter.ids, Range(Candidates(states, active, last.course)))

\* C11: when the adapter returns a list in which several ids are candidates,
\* select_next_concept returns the candidate that comes first in the
\* adapter's list, not the one that comes first among the candidates.
C11_FirstInAdapterListIsReturned ==
    (/\ last.op = "select"
     /\ last.adapter.kind = "list"
     /\ ListedCandidates # << >>)
        => last.result = Head(ListedCandidates)

\* C12: when select_next_concept returns a concept taken from the adapter's
\* suggestions, the MasteryState of that concept has ai_recommended = true
\* when the call returns; and ai_recommended becomes true only for the
\* concept of a call that took its answer from the external adapter.
C12_FlagMarksAdapterChoice ==
    /\ []((/\ last.op = "select"
           /\ last.adapter.kind = "list"
           /\ last.via = "adapter")
              => /\ last.result \in DOMAIN states
                 /\ states[last.result].ai_recommended)
    /\ [][\A c \in DOMAIN states' :
            (states'[c].ai_recommended /\ ~(c \in DOMAIN states /\ states[c].ai_recommended))
                => /\ last'.op = "select"
                   /\ last'.adapter.kind = "list"
                   /\ last'.result = c]_vars

\* the adapter is unavailable: it is not configured or the endpoint is not
\* reached
Unavailable ==
    {[kind |-> k, ids |-> << >>] :
        k \in {"not_configured", "transport_error", "timeout", "http_error"}}

\* C13: with the adapter unavailable, select_next_concept and
\* recommend_next_concept_after_quiz return the same concept on every run
\* over the same concepts and the same rows, also when rows tie on the
\* mastery score: no call has two possible answers.
C13_UnavailableAdapterDeterministic ==
    (last.op = "select" /\ last.adapter \in Unavailable)
        => SelectResults(states, active, last.course, last.adapter) = {last.result}

\* the candidates of the lowest order_index
LowestIndexCandidates ==
    LET cands == Range(Candidates(states, active, last.course))
    IN  {c \in cands : \A d \in cands : OrderIndex[c] <= OrderIndex[d]}

\* the adapter's reply is a list that names the concept returned
NamedByAdapter ==
    last.adapter.kind = "list" /\ last.result \in Range(last.adapter.ids)

Siblings(cur) ==
    LET IsSibling(c) == CourseOf[c] = CourseOf[cur] /\ c # cur
    IN  SelectSeq(EligibleConcepts(states, active, last.course), IsSibling)

\* C20: in the deterministic selector, when the most recently touched state
\* has frustration_score > 0.7 and its concept has no unmastered
\* prerequisite, the selector returns the eligible concept of the same
\* course, other than the current one, with the lowest mastery score.
C20_FrustrationPivotsToSibling ==
    \A cur \in CurrentStates(states) :
        (/\ last.op = "select"
         /\ last.via = "graph"
         /\ states[cur].frustration > 70
         /\ \A p \in Prereqs[cur] : MasteryOf(states, p) >= 60
         /\ Siblings(cur) # << >>)
            => /\ last.result \in Range(Siblings(cur))
               /\ \A d \in Range(Siblings(cur)) :
                    MasteryOf(states, last.result) <= MasteryOf(states, d)

\* the QuizAttempt rows of concept c
QuizCount(c) == Cardinality({i \in 1..Len(quiz) : quiz[i].concept = c})

\* worker w leaves the atomic block by a commit
Commits(w) == tx[w].pc = "saved" /\ tx'[w].pc = "idle"

\* C18: when update_mastery_after_quiz calls of the same user on the same
\* concept interleave, every call that commits stores its QuizAttempt and
\* its own copy of the MasteryState (the last writer wins), so the attempts
\* can fall behind the number of QuizAttempt rows; the scores stay in
\* [0, 1] and there is one MasteryState for the pair.
C18_LastWriterWins ==
    /\ [](\A c \in Concepts :
            /\ state_rows[c] = (IF c \in DOMAIN states THEN 1 ELSE 0)
            /\ c \in DOMAIN states =>
                /\ states[c].mastery \in 0..100
                /\ states[c].confidence \in 0..100
                /\ states[c].frustration \in 0..100
                /\ states[c].attempts <= QuizCount(c))
    /\ [][\A w \in Workers :
            Commits(w) =>
                /\ quiz' = quiz \o tx[w].buf_quiz
                /\ Len(tx[w].buf_quiz) = 1
                /\ states'[tx[w].concept] = tx[w].buf_state[1]]_vars

\* three calls on concept 1 have committed, the last two interleaved: three
\* QuizAttempt rows, and attempts raised by one of the two deltas only
C18_Witness ==
    /\ \A w \in Workers : tx[w].pc = "idle"
    /\ QuizCount(1) = 3
    /\ states[1].attempts = 2
    /\ state_rows[1] = 1

\* the rows that a step creates
Created == (DOMAIN states') \ (DOMAIN states)

\* score_percent clamped to [0, 100]
Percent(raw) == IF raw < 0 THEN 0 ELSE IF raw > 100 THEN 100 ELSE raw

\* C15: there is at most one MasteryState per (user, concept); a state is
\* created by the first graded attempt of the concept, with the three
\* scores 0.0 and attempts 0 before the first delta is applied; no
\* operation deletes a state.
C15_OneStateCreatedByFirstAttempt ==
    /\ [](\A c \in Concepts : state_rows[c] <= 1)
    /\ [][\A c \in Created :
            LET s == Percent(last'.score)
            IN  /\ last'.op = "update"
                /\ last'.concept = c
                /\ states'[c].attempts = 1
                /\ states'[c].mastery = (IF s >= 80 THEN 15 ELSE IF s >= 50 THEN 5 ELSE 1)
                /\ states'[c].frustration = (IF s >= 80 THEN 0 ELSE IF s >= 50 THEN 5 ELSE 20)
                /\ states'[c].confidence = (IF s >= 80 THEN 10 ELSE IF s >= 50 THEN 2 ELSE 0)]_vars
    /\ [][/\ DOMAIN states \subseteq DOMAIN states'
          /\ \A c \in Concepts : state_rows'[c] >= state_rows[c]]_vars

\* the scores and the attempts of the row of c, absent rows as zeros
Scores(rows, c) ==
    <<ScoreOf(rows, c, "mastery"), ScoreOf(rows, c, "confidence"),
      ScoreOf(rows, c, "frustration"), Attempts(rows, c)>>

\* C16: for every (user, concept) attempts never decreases, whatever the
\* operation (graded attempt, selection, recommendation after a quiz, the
\* parent saving the configuration with an overridden starting point), and
\* only update_mastery_after_quiz writes the scores and the attempts.
C16_AttemptsNeverDecrease ==
    /\ [][\A c \in Concepts : Attempts(states', c) >= Attempts(states, c)]_vars
    /\ [][\A c \in Concepts :
            (c \in Created \/ Scores(states', c) # Scores(states, c))
                => last'.op = "update" /\ last'.concept = c]_vars

\* C17: each update_mastery_after_quiz appends exactly one QuizAttempt of
\* the concept with score_percent clamped to [0, 100]; no operation changes
\* or removes a stored QuizAttempt, and every stored score_percent is in
\* [0, 100].
C17_LedgerAppendOnly ==
    /\ [](\A i \in 1..Len(quiz) : quiz[i].score_percent \in 0..100)
    /\ [][/\ Len(quiz') >= Len(quiz)
          /\ SubSeq(quiz', 1, Len(quiz)) = quiz]_vars
    /\ [][\A c \in Concepts :
            IsUpdate(c) =>
                /\ Len(quiz') = Len(quiz) + 1
                /\ quiz'[Len(quiz')].concept = c
                /\ quiz'[Len(quiz')].score_percent = Percent(last'.score)]_vars
    /\ [][quiz' # quiz => last'.op = "update"]_vars

\* a second attempt graded with 150 is stored as 100 behind the first row
C17_Witness ==
    /\ last.op = "update"
    /\ last.score = 150
    /\ Len(quiz) = 2
    /\ quiz[2].score_percent = 100
    /\ quiz[1].score_percent = 0

\* the step answers a call of get_or_start_session
Opens == last.op = "idle" /\ last'.op \in {"login", "session"}

\* C19: get_or_start_session returns the open session of the user when at
\* most 90 minutes have passed since its start_time; when more than 90
\* minutes have passed it sets the end_time of that session and returns a
\* new open session; the logout of a student sets end_time on the open
\* session, and the login of a student yields an open session.
C19_SessionWindow ==
    /\ [][Opens =>
            \A i \in OpenSessions(sessions) :
                IF clock - sessions[i].start_time <= 90
                THEN /\ last'.result = i
                     /\ sessions' = sessions
                ELSE /\ sessions'[i].end_time = clock
                     /\ Len(sessions') = Len(sessions) + 1
                     /\ last'.result = Len(sessions')
                     /\ sessions'[last'.result].start_time = clock
                     /\ sessions'[last'.result].end_time = Open]_vars
    /\ [][(last.op = "idle" /\ last'.op = "logout") =>
            /\ \A i \in OpenSessions(sessions) : sessions'[i].end_time = clock
            /\ OpenSessions(sessions') = {}]_vars
    /\ [][(last.op = "idle" /\ last'.op = "login") =>
            /\ last'.result \in OpenSessions(sessions')
            /\ OpenSessions(sessions') = {last'.result}]_vars

\* a page load 91 minutes after the start of the session: the session is
\* ended and a second one is returned
C19_Witness ==
    /\ last.op = "session"
    /\ last.result = 2
    /\ Len(sessions) = 2
    /\ sessions[1].start_time = 0 /\ sessions[1].end_time = 91
    /\ sessions[2].start_time = 91 /\ sessions[2].end_time = Open

\* the eligible concepts of the call, as a set
Eligible == Range(EligibleConcepts(states, active, last.course))

\* the pair (mastery_score, last_seen) of a concept, (0.0, the earliest
\* time) when the user never attempted it
Pair(c) ==
    IF c \in DOMAIN states THEN <<states[c].mastery, states[c].last_seen>>
    ELSE <<0, 0>>

\* concept c has a minimal (mastery_score, last_seen) pair among S
LowestIn(c, S) ==
    /\ c \in S
    /\ \A d \in S : \/ Pair(c)[1] < Pair(d)[1]
                    \/ Pair(c)[1] = Pair(d)[1] /\ Pair(c)[2] <= Pair(d)[2]

\* C21: in the deterministic selector, when the most recently touched state
\* has frustration_score <= 0.7, mastery_score < 0.4 and attempts > 3 and
\* another concept is eligible, the selector returns the eligible concept
\* other than the current one with the lowest mastery score; with
\* attempts = 3 or mastery_score = 0.4 the pivot does not fire and the
\* lowest of all eligible concepts, the current one included, is returned.
C21_StagnationPivotsSideways ==
    \A cur \in CurrentStates(states) :
        (/\ last.op = "select"
         /\ last.via = "graph"
         /\ states[cur].frustration <= 70)
            => /\ (/\ states[cur].mastery < 40
                   /\ states[cur].attempts > 3
                   /\ Eligible \ {cur} # {})
                      => /\ last.result \in Eligible \ {cur}
                         /\ \A d \in Eligible \ {cur} :
                                MasteryOf(states, last.result) <= MasteryOf(states, d)
               /\ (/\ states[cur].attempts = 3 \/ states[cur].mastery = 40
                   /\ Eligible # {})
                      => LowestIn(last.result, Eligible)

\* concept 1 is the current concept, stuck at 0.20 after four attempts and
\* the lowest of the eligible concepts: the selector moves to concept 3
C21_Witness ==
    /\ last.op = "select"
    /\ last.via = "graph"
    /\ CurrentStates(states) = {1}
    /\ states[1].mastery = 20 /\ states[1].attempts = 4
    /\ 3 \in DOMAIN states /\ states[3].mastery = 60
    /\ Eligible = {1, 2, 3} \/ Eligible = {1, 3}
    /\ last.result # 1

\* the stagnation test of select_next_concept on the current state
Stagnant(cur) == states[cur].mastery < 40 /\ states[cur].attempts > 3

\* C22: in the deterministic selector, when the user has no state at all or
\* the current state passes neither pivot test, and some concept is
\* eligible, the result is an eligible concept whose pair
\* (mastery_score, last_seen) is minimal, a concept never attempted counting
\* as (0.0, the earliest time).
C22_LowestMasteryThenOldest ==
    (/\ last.op = "select"
     /\ last.via = "graph"
     /\ Eligible # {}
     /\ \A cur \in CurrentStates(states) :
            states[cur].frustration <= 70 /\ ~Stagnant(cur))
        => LowestIn(last.result, Eligible)

\* concepts 1 and 3 are eligible at the same mastery and concept 2 is the
\* current one: concept 3, seen before concept 1, is returned although
\* concept 1 comes first in the list
C22_Witness ==
    /\ last.op = "select"
    /\ last.via = "graph"
    /\ CurrentStates(states) = {2}
    /\ Eligible = {1, 3}
    /\ {1, 3} \subseteq DOMAIN states
    /\ states[1].mastery = states[3].mastery
    /\ states[3].last_seen < states[1].last_seen
    /\ last.result = 3

\* the active concepts of the call's scope
InScope == EligibleQueryset(active, last.course)

\* C23: when no concept is eligible, the deterministic selector returns the
\* active concept in scope with the lowest mastery score among all active
\* concepts in scope, a concept without a MasteryState counting as 0.0; it
\* returns the active concept with the lowest order_index when the user has
\* no MasteryState rows, and null only when no active concept is in scope.
C23_FallbackLowestOfAllActive ==
    (/\ last.op = "select"
     /\ last.via = "graph"
     /\ Eligible = {})
        => /\ last.result = Null <=> InScope = {}
           /\ InScope # {}
                => /\ last.result \in InScope
                   /\ \A d \in InScope :
                          MasteryOf(states, last.result) <= MasteryOf(states, d)
           /\ (InScope # {} /\ DOMAIN states = {})
                => \A d \in InScope : OrderIndex[last.result] <= OrderIndex[d]

\* C27: when the most recently touched state has frustration_score > 0.7
\* and at least one other active concept is in scope, the deterministic
\* selector returns a concept different from the frustrated current concept.
C27_FrustrationLeavesCurrent ==
    \A cur \in CurrentStates(states) :
        (/\ last.op = "select"
         /\ last.via = "graph"
         /\ states[cur].frustration > 70
         /\ InScope \ {cur} # {})
            => last.result # cur

\* the active concepts of the graded concept's course
CourseActive == {d \in active : CourseOf[d] = CourseOf[last.concept]}

\* the adapter answered recommend_next_lesson without a suggestion the
\* engine uses: it was not asked, returned nothing, named no active concept
\* of the course, or named the graded concept after a score of 80 or more
NoUsableLesson ==
    \/ last.adapter.kind \in {"none", "not_configured", "transport_error", "timeout",
                               "http_error", "invalid_json", "empty", "text", "scalar"}
    \/ /\ last.adapter.kind = "object"
       /\ \/ last.adapter.ids = << >>
          \/ last.adapter.ids[1] \notin CourseActive
          \/ last.adapter.ids[1] = last.concept /\ last.score >= 80

\* the active concepts of the course that come after the graded concept
LaterByIndex ==
    {d \in CourseActive : OrderIndex[d] > OrderIndex[last.concept]}

FrustrationOf(c) == IF c \in DOMAIN states THEN states[c].frustration ELSE 0

\* concept r has the lowest mastery score of the concepts S
LowestMasteryIn(r, S) ==
    r \in S /\ \A d \in S : MasteryOf(states, r) <= MasteryOf(states, d)

\* C25: when there is no usable adapter suggestion and score_percent < 80,
\* recommend_next_concept_after_quiz returns the prerequisite of the graded
\* concept with the lowest mastery when (frustration_score > 0.7 or
\* score_percent < 50) and the concept has a prerequisite; otherwise it
\* returns the active concept of the course other than the graded one with
\* the lowest mastery, and null when the course has no other active concept.
C25_LowScorePrerequisiteOrAlternative ==
    (/\ last.op = "recommend"
     /\ NoUsableLesson
     /\ last.score < 80)
        => IF /\ FrustrationOf(last.concept) > 70 \/ last.score < 50
              /\ Prereqs[last.concept] # {}
           THEN LowestMasteryIn(last.result, Prereqs[last.concept])
           ELSE IF CourseActive \ {last.concept} # {}
           THEN LowestMasteryIn(last.result, CourseActive \ {last.concept})
           ELSE last.result = Null

\* the concepts eligible in a course (Null: all courses) on given rows
EligibleSet(rows, course) == Range(EligibleConcepts(rows, active, course))

\* no state is removed, no mastery_score is lowered and no concept stops
\* being eligible in the step
Monotone ==
    /\ \A c \in DOMAIN states :
            c \in DOMAIN states' /\ states'[c].mastery >= states[c].mastery
    /\ \A course \in Courses \cup {Null} :
            EligibleSet(states, course) \subseteq EligibleSet(states', course)

\* the row worker w is about to commit was computed from the row that is
\* stored now: no other call has written the MasteryState since w read it
Fresh(w) ==
    LET t == tx[w]
    IN  t.st = GradedState(GetMasteryState(states, t.concept, t.now), t.score, t.now)

\* C26 as stated: on a fixed graph no operation of the engine (update,
\* select, recommend) ever lowers a mastery_score or removes a state, so the
\* set of eligible concepts only grows.
C26_MasteryAndEligibilityMonotone == [][Monotone]_vars

\* C26, amended: the same for every select and recommend call and for every
\* update call that commits on the row it read; an update call that
\* overlaps another one of the same user on the same concept may store a
\* lower mastery_score than the one the other call committed.
C26_MonotoneWithoutOverlap ==
    [][(\A w \in Workers : Commits(w) => Fresh(w)) => Monotone]_vars

\* the fourth attempt at 90 on concept 1, with none lost, has taken it from
\* 0.45 to the threshold, and concept 2, whose prerequisite it is, is
\* eligible now
C26_Witness ==
    /\ 1 \in DOMAIN states
    /\ states[1].attempts = 4
    /\ Len(quiz) = 4
    /\ states[1].mastery = 60
    /\ 2 \in EligibleSet(states, Null)

\* the step is a call of select_next_concept or of
\* recommend_next_concept_after_quiz
Advises == last.op = "idle" /\ last'.op \in {"select", "recommend"}

\* C29: select_next_concept and recommend_next_concept_after_quiz create no
\* MasteryState and no QuizAttempt and leave mastery_score,
\* confidence_score, frustration_score, attempts and last_seen of every
\* MasteryState unchanged; the only field written is ai_recommended, only
\* by select_next_concept and only on the existing state of the concept it
\* returns.
C29_AdviceWritesOnlyTheFlag ==
    [][Advises =>
        /\ DOMAIN states' = DOMAIN states
        /\ state_rows' = state_rows
        /\ quiz' = quiz
        /\ \A c \in DOMAIN states :
              /\ states'[c].mastery = states[c].mastery
              /\ states'[c].confidence = states[c].confidence
              /\ states'[c].frustration = states[c].frustration
              /\ states'[c].attempts = states[c].attempts
              /\ states'[c].last_seen = states[c].last_seen
              /\ states'[c].ai_recommended # states[c].ai_recommended
                    => last'.op = "select" /\ last'.result = c]_vars

\* select_next_concept has returned a concept named by the adapter and set
\* the flag of its state; a concept the user never attempted has no state
C29_Witness ==
    /\ last.op = "select"
    /\ last.via = "adapter"
    /\ last.result \in DOMAIN states
    /\ states[last.result].ai_recommended
    /\ \E c \in Concepts \ DOMAIN states : TRUE

\* C30: over any interleaving of get_or_start_session, close_session and
\* record_quiz calls of one user, the user has at most one LearningSession
\* with end_time unset, and a session whose end_time has been set is never
\* opened again and its end_time never changes.
C30_OneOpenSessionEndTimeFinal ==
    /\ [](Cardinality(OpenSessions(sessions)) <= 1)
    /\ [][\A i \in 1..Len(sessions) :
            sessions[i].end_time # Open
                => sessions'[i].end_time = sessions[i].end_time]_vars

\* every concept has a state at or above the mastery threshold
AllMastered ==
    \A c \in Concepts : c \in DOMAIN states /\ states[c].mastery >= 60

\* C28: on an acyclic prerequisite graph with every concept active, when the
\* learner always attempts the concept the deterministic selector returns
\* and every attempt scores 80 or more, eventually every concept has a
\* mastery_score at or above the threshold and every concept is eligible.
C28_EveryConceptMastered ==
    <>(AllMastered /\ EligibleSet(states, Null) = Concepts)

\* the learner who began with a frustrated state of concept 3 and a
\* stagnating one of concept 1 has mastered all five concepts
C28_Witness ==
    /\ AllMastered
    /\ EligibleSet(states, Null) = Concepts
    /\ quiz[1].score_percent = 30
    /\ quiz[5].score_percent = 60

====
